---- MODULE Spec2Model ----
(***************************************************************************)
(* Time-Travel Bot (src/time_travel_bot.py): the chat session of one user. *)
(*                                                                         *)
(* Text is a sequence of atoms.  An atom is a one-character string for     *)
(* text that comes from outside (user messages, biographies), or a longer  *)
(* string for a literal fragment of the program text that contains no      *)
(* line break and does not start with blank space.  The value None of      *)
(* Python is the one-atom sequence None below, whose atom is no character. *)
(***************************************************************************)
EXTENDS Integers, Sequences, FiniteSets, TLC

(***************************************************************************)
(* Bounds of the model.                                                    *)
(***************************************************************************)
\* longest history a conversation turn may still extend
MaxHistory == 4
\* number of message handlers of the session that may be in flight
MaxHandlers == 2

\* number of messages that arrive while another is being handled
MaxOverlaps == 1

Handlers == 1..MaxHandlers
\* list objects alive at once: the session's and one per handler
ListIds == 1..(MaxHandlers + 1)

None == << "<None>" >>

(***************************************************************************)
(* str methods used by on_message.                                         *)
(***************************************************************************)
LowerCase == << "a","b","c","d","e","f","g","h","i","j","k","l","m",
                "n","o","p","q","r","s","t","u","v","w","x","y","z" >>
UpperCase == << "A","B","C","D","E","F","G","H","I","J","K","L","M",
                "N","O","P","Q","R","S","T","U","V","W","X","Y","Z" >>

Range(s) == { s[i] : i \in DOMAIN s }

IsLower(c) == c \in Range(LowerCase)
IsUpper(c) == c \in Range(UpperCase)
IsCased(c) == IsLower(c) \/ IsUpper(c)

IndexIn(c, s) == CHOOSE i \in DOMAIN s : s[i] = c

ToLower(c) == IF IsUpper(c) THEN LowerCase[IndexIn(c, UpperCase)] ELSE c
ToUpper(c) == IF IsLower(c) THEN UpperCase[IndexIn(c, LowerCase)] ELSE c

\* characters str.strip() removes
IsSpace(c) == c \in {" ", "\t", "\n"}

RECURSIVE LStrip(_)
LStrip(s) == IF s # << >> /\ IsSpace(Head(s)) THEN LStrip(Tail(s)) ELSE s

RECURSIVE RStrip(_)
RStrip(s) ==
    IF s # << >> /\ IsSpace(s[Len(s)]) THEN RStrip(SubSeq(s, 1, Len(s) - 1)) ELSE s

\* str.strip()
Strip(s) == RStrip(LStrip(s))

\* str.lower()
Lower(s) == [i \in DOMAIN s |-> ToLower(s[i])]

\* str.startswith(p)
StartsWith(s, p) == Len(s) >= Len(p) /\ SubSeq(s, 1, Len(p)) = p

\* str.split(" ", 1): cut at the first space character only
Split1(s) ==
    IF \E i \in DOMAIN s : s[i] = " "
    THEN LET i == CHOOSE k \in DOMAIN s :
                     s[k] = " " /\ \A j \in 1..(k - 1) : s[j] # " "
         IN  << SubSeq(s, 1, i - 1), SubSeq(s, i + 1, Len(s)) >>
    ELSE << s >>

\* str.title(): a cased character is upper-cased when the character before it
\* is not cased, lower-cased otherwise
Title(s) ==
    [i \in DOMAIN s |->
        IF IsCased(s[i])
        THEN IF i > 1 /\ IsCased(s[i - 1]) THEN ToLower(s[i]) ELSE ToUpper(s[i])
        ELSE s[i]]

SwitchWord == << "s","w","i","t","c","h" >>

(***************************************************************************)
(* textwrap.dedent                                                         *)
(***************************************************************************)
IsBlank(c) == c \in {" ", "\t"}

\* the text up to the first line break, and the text after it
FirstLine(t) ==
    IF \E i \in DOMAIN t : t[i] = "\n"
    THEN SubSeq(t, 1, (CHOOSE k \in DOMAIN t :
                           t[k] = "\n" /\ \A j \in 1..(k - 1) : t[j] # "\n") - 1)
    ELSE t

RECURSIVE SplitLines(_)
SplitLines(t) ==
    IF \E i \in DOMAIN t : t[i] = "\n"
    THEN << FirstLine(t) >> \o SplitLines(SubSeq(t, Len(FirstLine(t)) + 2, Len(t)))
    ELSE << t >>

RECURSIVE JoinLines(_)
JoinLines(ls) ==
    IF Len(ls) = 1 THEN ls[1] ELSE ls[1] \o << "\n" >> \o JoinLines(Tail(ls))

RECURSIVE LeadingBlank(_)
LeadingBlank(l) ==
    IF l # << >> /\ IsBlank(Head(l)) THEN << Head(l) >> \o LeadingBlank(Tail(l))
    ELSE << >>

RECURSIVE CommonPrefix(_, _)
CommonPrefix(a, b) ==
    IF a # << >> /\ b # << >> /\ Head(a) = Head(b)
    THEN << Head(a) >> \o CommonPrefix(Tail(a), Tail(b))
    ELSE << >>

RECURSIVE Margin(_)
\* common leading blank space of the lines that are not blank
Margin(ls) ==
    IF Len(ls) = 1 THEN LeadingBlank(ls[1])
    ELSE CommonPrefix(LeadingBlank(ls[1]), Margin(Tail(ls)))

Dedent(t) ==
    LET lines    == SplitLines(t)
        \* lines of blank space only are emptied
        norm     == [i \in DOMAIN lines |->
                        IF \A j \in DOMAIN lines[i] : IsBlank(lines[i][j])
                        THEN << >> ELSE lines[i]]
        nonblank == SelectSeq(norm, LAMBDA l : l # << >>)
        margin   == IF nonblank = << >> THEN << >> ELSE Margin(nonblank)
        cut      == [i \in DOMAIN norm |->
                        IF StartsWith(norm[i], margin)
                        THEN SubSeq(norm[i], Len(margin) + 1, Len(norm[i]))
                        ELSE norm[i]]
    IN  JoinLines(cut)

(***************************************************************************)
(* build_system_prompt                                                     *)
(***************************************************************************)
BioClauseText == "Here is a concise biography to ground you: "

Indent(n) == [i \in 1..n |-> " "]

\* `if bio`: None and the empty string are both false
Truthy(v) == v # None /\ v # << >>

build_system_prompt(name, bio) ==
    LET bio_clause == IF Truthy(bio) THEN << BioClauseText >> \o bio ELSE << >>
    IN  Dedent(
            << "\n" >> \o Indent(8)
            \o << "You are " >> \o name \o << ", speaking in first person. " >>
            \o bio_clause
            \o << "\n" >> \o Indent(8)
            \o << "Adopt " >> \o name
            \o << "'s typical tone, vocabulary, and worldview. Stay in character unless explicitly asked to drop the act. If you are unsure of something, make a best-guess based on " >>
            \o name \o << "'s known life and era." >>
            \o << "\n" >> \o Indent(4))

(***************************************************************************)
(* fetch_bio: what the lookup can come back with, and what _request makes  *)
(* of it.                                                                  *)
(***************************************************************************)
BioText == << "a"," ","p","o","e","t" >>
\* an extract of two paragraphs with a line of one space between them
BioLines == << "b","\n"," ","\n","c" >>

LookupOutcomes ==
    { [kind |-> "network_error"], [kind |-> "timeout"], [kind |-> "bad_status"],
      [kind |-> "not_json"], [kind |-> "not_object"], [kind |-> "no_extract"],
      [kind |-> "null_extract"],
      [kind |-> "ok", extract |-> BioText],
      [kind |-> "ok", extract |-> BioLines],
      [kind |-> "ok", extract |-> << >>] }

fetch_bio(outcome) ==
    CASE outcome.kind = "ok"           -> outcome.extract  \* data.get("extract", "")
      [] outcome.kind = "null_extract" -> None             \* the key is there: no default
      [] outcome.kind = "no_extract"   -> << >>            \* the default of data.get
      [] OTHER                         -> << >>            \* except Exception: return ""

(***************************************************************************)
(* The completion service: what chat.completions.create can come back with.*)
(***************************************************************************)
ReplyText == << "I am." >>

CreateOutcomes ==
    { [kind |-> "ok", content |-> ReplyText],
      [kind |-> "empty_choices"],
      [kind |-> "api_error", detail |-> << "Connection error." >>] }

\* the try block of on_message succeeds when the call returns and choices[0] exists
Succeeds(outcome) == outcome.kind = "ok"

\* str(exc) in the except block
ExcText(outcome) ==
    IF outcome.kind = "empty_choices" THEN << "list index out of range" >>
    ELSE outcome.detail

(***************************************************************************)
(* Process configuration: the environment read at import time.             *)
(***************************************************************************)
DefaultModel == "gemini-2.0-flash"

\* GEMINI_API_KEY, OPENAI_API_KEY set or not, LLM_MODEL set or not; the module
\* raises RuntimeError when neither key is set, so no session starts then
Environments ==
    { [gemini |-> TRUE, openai |-> FALSE, llm_model |-> ""],
      [gemini |-> TRUE, openai |-> TRUE, llm_model |-> "gpt-4o"] }

MODEL_NAME(env) == IF env.llm_model = "" THEN DefaultModel ELSE env.llm_model

get_async_client(env) ==
    IF env.openai THEN [api_key |-> "OPENAI_KEY", base_url |-> "default"]
    ELSE [api_key |-> "GEMINI_KEY",
          base_url |-> "https://generativelanguage.googleapis.com/v1beta/openai/"]

(***************************************************************************)
(* Messages a user may type (msg.content, before strip).                   *)
(***************************************************************************)
MsgSwitchBare   == << "s","w","i","t","c","h" >>
MsgSwitchPadded == << " ","S","W","I","T","C","H"," "," " >>
MsgSwitchName   == << "S","w","i","t","c","h"," ","a","d","a" >>
MsgSwitchboard  == << "s","w","i","t","c","h","b","o","a","r","d"," ","o","p","s" >>
MsgSwitchbWord  == << "s","w","i","t","c","h","b","o","a","r","d" >>
MsgName         == << "a","d","a"," ","l" >>
MsgQuestion     == << "h","I","?" >>
MsgBlank        == << " "," " >>

Messages ==
    { MsgSwitchBare, MsgSwitchPadded, MsgSwitchName, MsgSwitchboard, MsgSwitchbWord,
      MsgName, MsgQuestion, MsgBlank }

\* build_system_prompt, tabulated over the names and the biographies that
\* the messages and the lookups of the model can give it: the texts of the
\* messages as received, and as title() turns them into names
PersonaNames == { Strip(m) : m \in Messages } \cup { Title(Strip(m)) : m \in Messages }
Biographies == { fetch_bio(outcome) : outcome \in LookupOutcomes }
SystemPrompts ==
    [name \in PersonaNames |->
        [bio \in Biographies |-> build_system_prompt(name, bio)]]

(***************************************************************************)
(* The session store (cl.user_session), the list objects it and the        *)
(* handlers refer to, and the frames of the on_message coroutines.         *)
(***************************************************************************)
VARIABLES
    persona,    \* user_session["persona"]: None or the name
    prompt,     \* user_session["prompt"]
    history,    \* user_session["history"]: the list object it refers to
    model,      \* user_session["model"]
    client,     \* user_session["client"]
    heap,       \* the content of each list object
    frame,      \* one record per on_message coroutine
    returned,   \* the frame of the handler that returned last, as it ended,
                \* until the next message arrives
    overlaps    \* messages that arrived while another was being handled

vars == << persona, prompt, history, model, client, heap, frame, returned, overlaps >>

Entry(role, content) == [role |-> role, content |-> content]

\* what the handler reads from the store on entry, kept to compare against
Session == [persona |-> persona, prompt |-> prompt, history |-> heap[history],
            model |-> model, client |-> client]

\* awaits an on_message coroutine can be suspended at; "idle": none is running
AwaitPoints ==
    { "send_usage", "send_switch", "send_summon", "fetch_bio", "send_ready",
      "send_thinking", "create", "update_error", "update_reply" }

IdleFrame ==
    [pc |-> "idle", user_text |-> << >>, persona |-> None,
     bio |-> << >>, history |-> 0, sent |-> << >>, updates |-> 0, lookups |-> 0,
     requests |-> << >>, response |-> [kind |-> "none"],
     lookup |-> [kind |-> "none"], pre |-> [persona |-> None, prompt |-> << >>,
                                  history |-> << >>, model |-> "", client |-> ""]]

Running(h) == frame[h].pc # "idle"
AllIdle == \A h \in Handlers : ~Running(h)

\* list objects something still refers to, given the store's and the frames'
Referenced(hist, fr) == {hist} \cup { fr[h].history : h \in Handlers }

\* a list object nothing refers to (a new list)
NewList(hist, fr) ==
    CHOOSE i \in ListIds :
        /\ i \notin Referenced(hist, fr)
        /\ \A j \in ListIds : j \notin Referenced(hist, fr) => i <= j

\* list objects nothing refers to any more are gone
Collect(hp, hist, fr) ==
    [i \in ListIds |-> IF i \in Referenced(hist, fr) THEN hp[i] ELSE << >>]

(***************************************************************************)
(* on_chat_start                                                           *)
(***************************************************************************)
Init ==
    \E env \in Environments :
        /\ persona = None
        /\ prompt = << >>
        /\ history = 1
        /\ heap = [i \in ListIds |-> << >>]
        /\ model = MODEL_NAME(env)
        /\ client = get_async_client(env)
        /\ frame = [h \in Handlers |-> IdleFrame]
        /\ returned = IdleFrame
        /\ overlaps = 0

(***************************************************************************)
(* on_message, from its entry to its first await                           *)
(***************************************************************************)
\* user_text.lower().startswith("switch")
IsSwitch(user_text) == StartsWith(Lower(user_text), SwitchWord)

\* len(parts) == 1 or not parts[1].strip()
NoArgument(user_text) ==
    LET parts == Split1(user_text)
    IN  IF Len(parts) = 1 THEN TRUE ELSE Strip(parts[2]) = << >>

\* a message arrives: its handler starts in the first frame that is free; an
\* arrival while another handler is running is counted, and the session is
\* followed until the handlers of arrival number MaxOverlaps of these return
Arrive(h) ==
    /\ ~Running(h)
    /\ \A g \in Handlers : g < h => Running(g)
    /\ overlaps < MaxOverlaps
    /\ overlaps' = IF AllIdle THEN overlaps ELSE overlaps + 1

\* a fresh frame for the message: user_text = msg.content.strip()
Enter(h, raw) ==
    [IdleFrame EXCEPT !.user_text = Strip(raw), !.pre = Session]

\* Usage, had the reset of the switch branch been placed before the check of
\* the argument
UsageResets(h, raw) ==
    LET f  == [IdleFrame EXCEPT !.user_text = Strip(raw), !.pre = Session]
        fr == [frame EXCEPT ![h] =
                  [f EXCEPT !.pc = "send_usage",
                            !.sent = << << "Usage: switch Marie Curie" >> >>]]
        new == NewList(history, frame)
    IN
    /\ Arrive(h)
    /\ IsSwitch(f.user_text)
    /\ NoArgument(f.user_text)
    /\ persona' = None
    /\ history' = new
    /\ heap' = Collect([heap EXCEPT ![new] = << >>], new, fr)
    /\ frame' = fr
    /\ UNCHANGED << prompt, model, client >>
    /\ returned' = IdleFrame

\* the usage branch: the hint is sent, nothing else
Usage(h, raw) ==
    LET f == Enter(h, raw) IN
    /\ Arrive(h)
    /\ IsSwitch(f.user_text)
    /\ NoArgument(f.user_text)
    /\ frame' = [frame EXCEPT ![h] =
                    [f EXCEPT !.pc = "send_usage",
                              !.sent = << << "Usage: switch Marie Curie" >> >>]]
    /\ UNCHANGED << persona, prompt, history, model, client, heap >>
    /\ returned' = IdleFrame

\* Switch, had it reset the persona only
SwitchKeepsHistory(h, raw) ==
    LET f == [IdleFrame EXCEPT !.user_text = Strip(raw), !.pre = Session] IN
    /\ Arrive(h)
    /\ IsSwitch(f.user_text)
    /\ ~NoArgument(f.user_text)
    /\ persona' = None
    /\ frame' = [frame EXCEPT ![h] =
                    [f EXCEPT !.pc = "send_switch",
                              !.sent = << << "Okay, who would you like to speak with now?" >> >>]]
    /\ UNCHANGED << prompt, history, heap, model, client >>
    /\ returned' = IdleFrame

\* Switch, had it set the session up again the way on_chat_start does, with
\* the default model
SwitchResetsModel(h, raw) ==
    LET f  == [IdleFrame EXCEPT !.user_text = Strip(raw), !.pre = Session]
        fr == [frame EXCEPT ![h] =
                  [f EXCEPT !.pc = "send_switch",
                            !.sent = << << "Okay, who would you like to speak with now?" >> >>]]
        new == NewList(history, frame)
    IN
    /\ Arrive(h)
    /\ IsSwitch(f.user_text)
    /\ ~NoArgument(f.user_text)
    /\ persona' = None
    /\ history' = new
    /\ heap' = Collect([heap EXCEPT ![new] = << >>], new, fr)
    /\ frame' = fr
    /\ model' = DefaultModel
    /\ UNCHANGED << prompt, client >>
    /\ returned' = IdleFrame

\* the switch branch: persona and history are reset, then the question is sent
Switch(h, raw) ==
    LET f  == Enter(h, raw)
        fr == [frame EXCEPT ![h] =
                  [f EXCEPT !.pc = "send_switch",
                            !.sent = << << "Okay, who would you like to speak with now?" >> >>]]
        new == NewList(history, frame)
    IN
    /\ Arrive(h)
    /\ IsSwitch(f.user_text)
    /\ ~NoArgument(f.user_text)
    /\ persona' = None
    /\ history' = new
    /\ heap' = Collect([heap EXCEPT ![new] = << >>], new, fr)
    /\ frame' = fr
    /\ UNCHANGED << prompt, model, client >>
    /\ returned' = IdleFrame

\* Summon, had it taken the text as typed
SummonAsTyped(h, raw) ==
    LET f == [IdleFrame EXCEPT !.user_text = Strip(raw), !.pre = Session] IN
    /\ Arrive(h)
    /\ ~IsSwitch(f.user_text)
    /\ persona = None
    /\ frame' = [frame EXCEPT ![h] =
                    [f EXCEPT !.pc = "send_summon",
                              !.persona = f.user_text,
                              !.sent = << << "Summoning **" >> \o f.user_text
                                          \o << "**... one moment." >> >>]]
    /\ UNCHANGED << persona, prompt, history, model, client, heap >>
    /\ returned' = IdleFrame

\* persona is None: the text, title-cased, is announced as the persona
Summon(h, raw) ==
    LET f == Enter(h, raw) IN
    /\ Arrive(h)
    /\ ~IsSwitch(f.user_text)
    /\ persona = None
    /\ frame' = [frame EXCEPT ![h] =
                    [f EXCEPT !.pc = "send_summon",
                              !.persona = Title(f.user_text),
                              !.sent = << << "Summoning **" >> \o Title(f.user_text)
                                          \o << "**... one moment." >> >>]]
    /\ UNCHANGED << persona, prompt, history, model, client, heap >>
    /\ returned' = IdleFrame

\* Ask, had it sent the placeholder without recording the user's message
AskNotRecorded(h, raw) ==
    LET f == Enter(h, raw) IN
    /\ Arrive(h)
    /\ ~IsSwitch(f.user_text)
    /\ persona # None
    /\ Len(heap[history]) + 2 <= MaxHistory
    /\ frame' = [frame EXCEPT ![h] =
                    [f EXCEPT !.pc = "send_thinking",
                              !.persona = persona,
                              !.history = history,
                              !.sent = << << "Thinking..." >> >>]]
    /\ UNCHANGED << persona, prompt, history, model, client, heap >>
    /\ returned' = IdleFrame

\* a conversation turn: the user entry is appended to the session's list and
\* the placeholder is sent
Ask(h, raw) ==
    LET f == Enter(h, raw) IN
    /\ Arrive(h)
    /\ ~IsSwitch(f.user_text)
    /\ persona # None
    /\ Len(heap[history]) + 2 <= MaxHistory
    /\ heap' = [heap EXCEPT ![history] = Append(@, Entry("user", f.user_text))]
    /\ frame' = [frame EXCEPT ![h] =
                    [f EXCEPT !.pc = "send_thinking",
                              !.persona = persona,
                              !.history = history,
                              !.sent = << << "Thinking..." >> >>]]
    /\ UNCHANGED << persona, prompt, history, model, client >>
    /\ returned' = IdleFrame

(***************************************************************************)
(* on_message, resumed from an await                                       *)
(***************************************************************************)
\* the announcement is out: fetch_bio(persona) is called
Lookup(h) ==
    /\ frame[h].pc = "send_summon"
    /\ frame' = [frame EXCEPT ![h].pc = "fetch_bio", ![h].lookups = @ + 1]
    /\ UNCHANGED << persona, prompt, history, model, client, heap, returned, overlaps >>

\* Resolve, had it built the prompt without the biography
ResolveWithoutBio(h, outcome) ==
    LET bio == fetch_bio(outcome)
        system_prompt == SystemPrompts[frame[h].persona][<< >>]
        fr == [frame EXCEPT ![h].pc = "send_ready",
                            ![h].bio = bio,
                            ![h].lookup = outcome,
                            ![h].sent = Append(@, << "Great! Ask your first question." >>)]
        new == NewList(history, frame)
    IN
    /\ frame[h].pc = "fetch_bio"
    /\ persona' = frame[h].persona
    /\ prompt' = system_prompt
    /\ history' = new
    /\ heap' = Collect([heap EXCEPT ![new] = << Entry("system", system_prompt) >>],
                       new, fr)
    /\ frame' = fr
    /\ UNCHANGED << model, client, returned, overlaps >>

\* fetch_bio returned: the prompt is built and the session is set up
Resolve(h, outcome) ==
    LET bio == fetch_bio(outcome)
        system_prompt == SystemPrompts[frame[h].persona][bio]
        fr == [frame EXCEPT ![h].pc = "send_ready",
                            ![h].bio = bio,
                            ![h].lookup = outcome,
                            ![h].sent = Append(@, << "Great! Ask your first question." >>)]
        new == NewList(history, frame)
    IN
    /\ frame[h].pc = "fetch_bio"
    /\ persona' = frame[h].persona
    /\ prompt' = system_prompt
    /\ history' = new
    /\ heap' = Collect([heap EXCEPT ![new] = << Entry("system", system_prompt) >>],
                       new, fr)
    /\ frame' = fr
    /\ UNCHANGED << model, client, returned, overlaps >>

\* Request, had it sent the message just received only
RequestLastOnly(h) ==
    /\ frame[h].pc = "send_thinking"
    /\ frame' = [frame EXCEPT ![h].pc = "create",
                              ![h].requests =
                                  Append(@, [client |-> client, model |-> model,
                                             messages |-> << Entry("user", frame[h].user_text) >>])]
    /\ UNCHANGED << persona, prompt, history, model, client, heap, returned, overlaps >>

\* the placeholder is out: the completion is requested with the handler's list
Request(h) ==
    /\ frame[h].pc = "send_thinking"
    /\ frame' = [frame EXCEPT ![h].pc = "create",
                              ![h].requests =
                                  Append(@, [client |-> client, model |-> model,
                                             messages |-> heap[frame[h].history]])]
    /\ UNCHANGED << persona, prompt, history, model, client, heap, returned, overlaps >>

\* Reply, had it shown the reply without recording it
ReplyNotRecorded(h, outcome) ==
    LET mine == frame[h].history
        fr == [frame EXCEPT ![h].pc = "update_reply",
                            ![h].response = outcome,
                            ![h].sent[Len(frame[h].sent)] = outcome.content,
                            ![h].updates = @ + 1]
    IN
    /\ frame[h].pc = "create"
    /\ Succeeds(outcome)
    /\ history' = mine
    /\ heap' = Collect(heap, mine, fr)
    /\ frame' = fr
    /\ UNCHANGED << persona, prompt, model, client, returned, overlaps >>

\* Reply, had it stored the reply under the key "prompt" as well
ReplySetsPrompt(h, outcome) ==
    LET assistant_text == outcome.content
        mine == frame[h].history
        fr == [frame EXCEPT ![h].pc = "update_reply",
                            ![h].response = outcome,
                            ![h].sent[Len(frame[h].sent)] = assistant_text,
                            ![h].updates = @ + 1]
    IN
    /\ frame[h].pc = "create"
    /\ Succeeds(outcome)
    /\ history' = mine
    /\ prompt' = assistant_text
    /\ heap' = Collect([heap EXCEPT ![mine] = Append(@, Entry("assistant", assistant_text))],
                       mine, fr)
    /\ frame' = fr
    /\ UNCHANGED << persona, model, client, returned, overlaps >>

\* the completion came back with a choice: the assistant entry is appended to
\* the handler's list, which is stored as the session's history
Reply(h, outcome) ==
    LET assistant_text == outcome.content
        mine == frame[h].history
        fr == [frame EXCEPT ![h].pc = "update_reply",
                            ![h].response = outcome,
                            ![h].sent[Len(frame[h].sent)] = assistant_text,
                            ![h].updates = @ + 1]
    IN
    /\ frame[h].pc = "create"
    /\ Succeeds(outcome)
    /\ history' = mine
    /\ heap' = Collect([heap EXCEPT ![mine] = Append(@, Entry("assistant", assistant_text))],
                       mine, fr)
    /\ frame' = fr
    /\ UNCHANGED << persona, prompt, model, client, returned, overlaps >>

\* Fail, had it recorded the error text as the assistant's entry
FailRecordsError(h, outcome) ==
    /\ frame[h].pc = "create"
    /\ ~Succeeds(outcome)
    /\ heap' = [heap EXCEPT ![frame[h].history] =
                   Append(@, Entry("assistant", << "Error from model: " >> \o ExcText(outcome)))]
    /\ frame' = [frame EXCEPT ![h].pc = "update_error",
                              ![h].response = outcome,
                              ![h].sent[Len(frame[h].sent)] =
                                  << "Error from model: " >> \o ExcText(outcome),
                              ![h].updates = @ + 1]
    /\ UNCHANGED << persona, prompt, history, model, client, returned, overlaps >>

\* Fail, had it returned without touching the placeholder
FailLeavesPlaceholder(h, outcome) ==
    /\ frame[h].pc = "create"
    /\ ~Succeeds(outcome)
    /\ frame' = [frame EXCEPT ![h].pc = "update_error",
                              ![h].response = outcome]
    /\ UNCHANGED << persona, prompt, history, model, client, heap, returned, overlaps >>

\* Fail, had it taken the user's entry back out of the list
FailDropsUserEntry(h, outcome) ==
    /\ frame[h].pc = "create"
    /\ ~Succeeds(outcome)
    /\ heap' = [heap EXCEPT ![frame[h].history] = SubSeq(@, 1, Len(@) - 1)]
    /\ frame' = [frame EXCEPT ![h].pc = "update_error",
                              ![h].response = outcome,
                              ![h].sent[Len(frame[h].sent)] =
                                  << "Error from model: " >> \o ExcText(outcome),
                              ![h].updates = @ + 1]
    /\ UNCHANGED << persona, prompt, history, model, client, returned, overlaps >>

\* the completion failed: the placeholder becomes the error text
Fail(h, outcome) ==
    /\ frame[h].pc = "create"
    /\ ~Succeeds(outcome)
    /\ frame' = [frame EXCEPT ![h].pc = "update_error",
                              ![h].response = outcome,
                              ![h].sent[Len(frame[h].sent)] =
                                  << "Error from model: " >> \o ExcText(outcome),
                              ![h].updates = @ + 1]
    /\ UNCHANGED << persona, prompt, history, model, client, heap, returned, overlaps >>

\* the last send or update of the handler is done: the coroutine returns and
\* lets go of its list
Return(h) ==
    LET fr == [frame EXCEPT ![h] = IdleFrame] IN
    /\ frame[h].pc \in {"send_usage", "send_switch", "send_ready",
                        "update_error", "update_reply"}
    /\ frame' = fr
    /\ returned' = [frame[h] EXCEPT !.history = 0]
    /\ heap' = Collect(heap, history, fr)
    /\ UNCHANGED << persona, prompt, history, model, client, overlaps >>

(***************************************************************************)
(* Messages handled one at a time: the next message is delivered once the  *)
(* handler of the one before has returned.                                 *)
(***************************************************************************)
Next ==
    \/ \E h \in Handlers, raw \in Messages : AllIdle /\ Usage(h, raw)
    \/ \E h \in Handlers, raw \in Messages : AllIdle /\ Switch(h, raw)
    \/ \E h \in Handlers, raw \in Messages : AllIdle /\ Summon(h, raw)
    \/ \E h \in Handlers, raw \in Messages : AllIdle /\ Ask(h, raw)
    \/ \E h \in Handlers : Lookup(h)
    \/ \E h \in Handlers, outcome \in LookupOutcomes : Resolve(h, outcome)
    \/ \E h \in Handlers : Request(h)
    \/ \E h \in Handlers, outcome \in CreateOutcomes : Reply(h, outcome)
    \/ \E h \in Handlers, outcome \in CreateOutcomes : Fail(h, outcome)
    \/ \E h \in Handlers : Return(h)

Spec == Init /\ [][Next]_vars

(***************************************************************************)
(* Messages handled as they arrive: on_message takes no lock, so a handler *)
(* may start while another is suspended at an await.                       *)
(***************************************************************************)
NextOverlap ==
    \/ \E h \in Handlers, raw \in Messages : Usage(h, raw)
    \/ \E h \in Handlers, raw \in Messages : Switch(h, raw)
    \/ \E h \in Handlers, raw \in Messages : Summon(h, raw)
    \/ \E h \in Handlers, raw \in Messages : Ask(h, raw)
    \/ \E h \in Handlers : Lookup(h)
    \/ \E h \in Handlers, outcome \in LookupOutcomes : Resolve(h, outcome)
    \/ \E h \in Handlers : Request(h)
    \/ \E h \in Handlers, outcome \in CreateOutcomes : Reply(h, outcome)
    \/ \E h \in Handlers, outcome \in CreateOutcomes : Fail(h, outcome)
    \/ \E h \in Handlers : Return(h)

SpecOverlap == Init /\ [][NextOverlap]_vars

(***************************************************************************)
(* Messages handled one at a time, by handlers that run on: the event loop *)
(* resumes a coroutine once what it awaits is there, and every send,       *)
(* lookup and completion call comes back, with a result or a failure.      *)
(***************************************************************************)
Resume ==
    \E h \in Handlers :
        \/ Lookup(h)
        \/ \E outcome \in LookupOutcomes : Resolve(h, outcome)
        \/ Request(h)
        \/ \E outcome \in CreateOutcomes : Reply(h, outcome)
        \/ \E outcome \in CreateOutcomes : Fail(h, outcome)
        \/ Return(h)

SpecLive == Spec /\ WF_vars(Resume)

(***************************************************************************)
(* Properties of the session.                                              *)
(***************************************************************************)
\* the session's history, as a list of entries
hist == heap[history]

\* the handler that returned last took this branch
Ended(pc) == AllIdle /\ returned.pc = pc

UsageHint == << "Usage: switch Marie Curie" >>
ReadyText == << "Great! Ask your first question." >>
UserEntry(f) == Entry("user", f.user_text)

\* C1: between turns, history is non-empty and starts with a system entry
\* exactly when a persona is set.
C1_HistoryIffPersona ==
    AllIdle => ((hist # << >> /\ hist[1].role = "system") <=> persona # None)

\* a switch sent to an active session has been handled
C1_Witness ==
    /\ Ended("send_switch")
    /\ returned.pre.persona # None
    /\ Len(returned.pre.history) >= 3
    /\ persona = None /\ hist = << >>

\* C2: between turns, no persona means an empty history and an empty prompt.
C2_NoPersonaAllCleared ==
    AllIdle => (persona = None => hist = << >> /\ prompt = << >>)

C4_UsageChangesNothing ==
    /\ (AllIdle /\ returned.pc # "idle" /\ Lower(returned.user_text) = SwitchWord) =>
          returned.pc = "send_usage"
    /\ Ended("send_usage") =>
          /\ Session = returned.pre
          /\ returned.lookups = 0
          /\ returned.requests = << >>
          /\ returned.sent = << UsageHint >>

\* a bare switch was sent to a session with a conversation under way
C4_Witness ==
    /\ Ended("send_usage")
    /\ Lower(returned.user_text) = SwitchWord
    /\ persona # None
    /\ Len(hist) >= 3

\* C5: a turn whose completion succeeds adds the user entry (the trimmed text)
\* and then the assistant entry (the reply) to the history it found, leaves
\* persona and prompt alone, and shows the reply.
C5_SuccessAppendsTwo ==
    Ended("update_reply") =>
        /\ hist = returned.pre.history
                    \o << UserEntry(returned),
                          Entry("assistant", returned.response.content) >>
        /\ returned.user_text = Strip(returned.user_text)
        /\ persona = returned.pre.persona
        /\ prompt = returned.pre.prompt
        /\ returned.sent = << returned.response.content >>

\* a second exchange has succeeded
C5_Witness ==
    /\ Ended("update_reply")
    /\ Len(returned.pre.history) >= 2
    /\ Len(hist) = Len(returned.pre.history) + 2

\* C6: a turn whose completion fails adds the user entry only, leaves persona
\* and prompt alone, keeps the session active and shows the error with the
\* upstream detail; the dangling user entry is part of the next request.
C6_FailureAppendsOne ==
    /\ Ended("update_error") =>
          /\ hist = returned.pre.history \o << UserEntry(returned) >>
          /\ persona = returned.pre.persona
          /\ prompt = returned.pre.prompt
          /\ persona # None
          /\ returned.sent = << << "Error from model: " >> \o ExcText(returned.response) >>
    /\ \A h \in Handlers :
          (frame[h].requests # << >> /\ frame[h].pre.history # << >>
           /\ frame[h].pre.history[Len(frame[h].pre.history)].role = "user") =>
              SubSeq(frame[h].requests[1].messages, 1, Len(frame[h].pre.history))
                  = frame[h].pre.history

\* a turn has failed right after a turn that failed
C6_Witness ==
    /\ Ended("update_error")
    /\ Len(returned.pre.history) >= 2
    /\ returned.pre.history[Len(returned.pre.history)].role = "user"
    /\ returned.requests # << >>

\* C7: a message that is no command, received while the persona is None, sets
\* persona to its title-cased text, prompt to build_system_prompt of persona
\* and fetched biography, history to the one system entry with that prompt;
\* no completion is requested and the two acknowledgements are all that is
\* shown.
C7_PersonaResolution ==
    Ended("send_ready") =>
        /\ returned.pre.persona = None
        /\ ~IsSwitch(returned.user_text)
        /\ persona = Title(returned.user_text)
        /\ prompt = build_system_prompt(persona, returned.bio)
        /\ hist = << Entry("system", prompt) >>
        /\ returned.lookups = 1
        /\ returned.requests = << >>
        /\ returned.sent = << << "Summoning **" >> \o persona \o << "**... one moment." >>,
                              ReadyText >>

\* a persona was resolved with a biography, from a name typed in lower case
C7_Witness ==
    /\ Ended("send_ready")
    /\ returned.bio = BioText
    /\ persona # returned.user_text

\* the first token of the text: up to the first white space
FirstToken(t) ==
    IF \E i \in DOMAIN t : IsSpace(t[i])
    THEN SubSeq(t, 1, (CHOOSE k \in DOMAIN t :
                           IsSpace(t[k]) /\ \A j \in 1..(k - 1) : ~IsSpace(t[j])) - 1)
    ELSE t

\* C8: a message whose first token is not the word switch is never handled as
\* a command: it is answered neither by the usage hint nor by the switch.
C8_OnlySwitchTokenIsCommand ==
    (AllIdle /\ returned.pc # "idle"
     /\ Lower(FirstToken(returned.user_text)) # SwitchWord) =>
        returned.pc \notin {"send_usage", "send_switch"}

\* C9: a completion is requested only in a conversation turn of an active
\* session, once, and with the session's whole history: the system entry with
\* the current prompt first, the entry of the message just received last.
C9_RequestCarriesHistory ==
    \A h \in Handlers :
        /\ frame[h].pc \in {"send_usage", "send_switch", "send_summon", "fetch_bio",
                            "send_ready", "send_thinking"} => frame[h].requests = << >>
        /\ frame[h].requests # << >> =>
              /\ Len(frame[h].requests) = 1
              /\ frame[h].pre.persona # None
              /\ frame[h].requests[1].messages
                    = frame[h].pre.history \o << UserEntry(frame[h]) >>
              /\ frame[h].requests[1].messages[1] = Entry("system", prompt)
        /\ frame[h].pc = "create" =>
              /\ persona # None
              /\ frame[h].requests[1].messages = hist

\* the first question after the persona was resolved is with the service
C9_Witness ==
    \E h \in Handlers :
        /\ frame[h].pc = "create"
        /\ Len(frame[h].requests[1].messages) = 2

\* C10: no two message handlers of the session are in flight at once.
C10_NoOverlap ==
    \A g, h \in Handlers : (Running(g) /\ Running(h)) => g = h

\* what the claim of fetch_bio's contract expects for an outcome of the lookup:
\* the extract text when there is one, the empty string otherwise
ExpectedBio(outcome) ==
    IF outcome.kind = "ok" THEN outcome.extract ELSE << >>

\* C11: fetch_bio returns a string whatever the lookup came back with: the
\* empty string in every failure case, the extract text otherwise.
C11_FetchBioReturnsString ==
    \A h \in Handlers :
        frame[h].pc = "send_ready" =>
            /\ frame[h].bio # None
            /\ frame[h].bio = ExpectedBio(frame[h].lookup)

\* C12: model and client of the session, set by on_chat_start, are changed by
\* no step of any handler.
C12_ModelAndClientConstant ==
    [][model' = model /\ client' = client]_vars

\* a session with the model overridden has been through a persona resolution
\* and turns, the last of which failed
C12_Witness ==
    /\ Ended("update_error")
    /\ model # DefaultModel
    /\ returned.pre.model = model
    /\ returned.pre.client = client
    /\ Len(hist) >= 3

\* the step in which fetch_bio returns to a handler and the session is set up
ResolveStep ==
    \E h \in Handlers : frame[h].pc = "fetch_bio" /\ frame'[h].pc = "send_ready"

\* the step in which a handler enters the switch branch
SwitchStep ==
    \E h \in Handlers : frame[h].pc = "idle" /\ frame'[h].pc = "send_switch"

\* C13: the prompt is empty at the start of the session and changes only when
\* a persona is resolved; while a persona is set it is the content of the
\* system entry that heads the history.
C13_PromptFixedUntilResolved ==
    /\ prompt = << >>
    /\ [][/\ prompt' # prompt => ResolveStep
          /\ (prompt = << >> /\ ~ResolveStep) => prompt' = << >>
          /\ persona' # None =>
                heap'[history'][1] = Entry("system", prompt')]_vars

\* a failed turn and then a successful one have left the prompt of the
\* resolution in place
C13_Witness ==
    /\ Ended("update_reply")
    /\ Len(returned.pre.history) = 2
    /\ prompt # << >>
    /\ prompt = returned.pre.prompt
    /\ hist[1].content = prompt

Placeholder == << "Thinking..." >>

\* C14: a persona-resolution turn always gets to the readiness message with
\* the persona set, whatever the lookup came back with, and shows nothing but
\* its two acknowledgements; in a conversation turn the placeholder is always
\* overwritten in the end, once, by the reply or by an error text.
C14_TurnsResolve ==
    /\ [](\A h \in Handlers :
            /\ frame[h].updates <= 1
            /\ frame[h].pc \in {"send_thinking", "create"} =>
                  frame[h].updates = 0 /\ frame[h].sent = << Placeholder >>
            /\ frame[h].pc \in {"update_reply", "update_error"} =>
                  /\ frame[h].updates = 1
                  /\ Len(frame[h].sent) = 1
                  /\ frame[h].sent[1] # Placeholder
            /\ frame[h].pc = "send_ready" =>
                  Len(frame[h].sent) = 2 /\ frame[h].sent[2] = ReadyText)
    /\ \A h \in Handlers :
          (frame[h].pc = "send_summon") ~> (frame[h].pc = "send_ready" /\ persona # None)
    /\ \A h \in Handlers :
          (frame[h].pc = "send_thinking")
              ~> (frame[h].pc \in {"update_reply", "update_error"})

\* a turn whose completion failed has returned, its placeholder overwritten
\* once with the error text, in a session whose persona was set up without a
\* biography
C14_Witness ==
    /\ Ended("update_error")
    /\ returned.updates = 1
    /\ Len(returned.sent) = 1 /\ returned.sent[1] # Placeholder
    /\ persona # None
    /\ prompt = build_system_prompt(persona, << >>)

\* the text sub occurs in the text t, atom for atom
Contains(t, sub) ==
    \E i \in 0..(Len(t) - Len(sub)) : SubSeq(t, i + 1, i + Len(sub)) = sub

\* C15: the prompt built for a name and a biography contains the name; it
\* contains the grounding clause exactly when the biography is not empty, and
\* it contains every non-empty biography verbatim.
C15_PromptContainsNameAndBio ==
    \A h \in Handlers :
        (frame[h].pc = "send_ready" /\ frame[h].bio # None) =>
            /\ prompt = build_system_prompt(frame[h].persona, frame[h].bio)
            /\ Contains(prompt, frame[h].persona)
            /\ Contains(prompt, << BioClauseText >>) <=> frame[h].bio # << >>
            /\ frame[h].bio # << >> => Contains(prompt, frame[h].bio)

\* C16: when messages overlapped and all handlers have returned, a session
\* left without a persona by a switch command has an empty history: a
\* completion that came back after the switch has put nothing back.
C16_SwitchDiscardsLateReply ==
    (AllIdle /\ overlaps > 0 /\ persona = None) => hist = << >>

\* C17: with messages handled one at a time, a system entry is found at the
\* start of history only, and every assistant entry directly follows a user
\* entry.
C17_RoleStructure ==
    \A i \in DOMAIN hist :
        /\ hist[i].role = "system" => i = 1
        /\ hist[i].role = "assistant" => (i > 1 /\ hist[i - 1].role = "user")

\* two user entries are adjacent after a failed completion, and the next
\* completion's reply follows them
C17_Witness ==
    /\ Ended("update_reply")
    /\ Len(hist) = 4
    /\ hist[1].role = "system"
    /\ hist[2].role = "user" /\ hist[3].role = "user"
    /\ hist[4].role = "assistant"

\* C18: every step leaves the previous history as a prefix of the new one,
\* except a switch command with an argument, which empties it, and persona
\* resolution, which replaces it by the system entry; while a persona stays
\* set nothing is removed, reordered or rewritten.
C18_HistoryAppendOnly ==
    [][/\ (persona # None /\ persona' # None) => StartsWith(hist', hist)
       /\ ~StartsWith(hist', hist) =>
             \/ SwitchStep /\ hist' = << >>
             \/ ResolveStep /\ hist' = << Entry("system", prompt') >>]_vars

\* a failed turn that followed another turn has returned, and the history it
\* found is a prefix of the history it left
C18_Witness ==
    /\ Ended("update_error")
    /\ Len(returned.pre.history) >= 2
    /\ StartsWith(hist, returned.pre.history)
    /\ hist = Append(returned.pre.history, UserEntry(returned))

\* C19: a persona that is set is a non-empty name.
C19_PersonaNonEmpty ==
    persona # None => persona # << >>

====
